---- MODULE Spec2Model ----
(***************************************************************************)
(* Atlas Scientific command/calibration controller                         *)
(* (mycodo/utils/calibration.py, class AtlasScientificCommand) and the     *)
(* Atlas pH input (mycodo/inputs/atlas_ph.py, class InputModule).          *)
(*                                                                         *)
(* Python values are modelled as tagged tuples so that values of different *)
(* Python types are comparable: None, PyStr(s), PyNum(x), a formatted      *)
(* string Format(template, x), an exception instance Exc(type, k).         *)
(* All calls are synchronous; each public method is one action.  What a    *)
(* call did is kept in the variable last: its arguments, its outcome       *)
(* (a return value or a propagated exception) and the ordered trace of     *)
(* send_command entries, device queries and sleeps it performed.           *)
(***************************************************************************)
EXTENDS Integers, Sequences, FiniteSets, TLC

VARIABLES
    interface,         \* input_dev.interface
    testing,           \* InputModule(testing=...)
    comp_id,           \* temperature_comp_meas_measurement_id is configured
    max_age,           \* InputModule.max_age (custom option, seconds)
    phase,             \* InputModule: "new", "ready", "ctor_raised"
    atlas_device,      \* InputModule.atlas_device: None or Dev
    atlas_command,     \* InputModule.atlas_command: None or Cmd
    setup,             \* atlas_device.setup of the device object
    cmd_phase,         \* AtlasScientificCommand: "none", "ready", "ctor_raised"
    cmd_device,        \* AtlasScientificCommand.atlas_device
    measurement,       \* AtlasScientificCommand.measurement
    board_version,     \* AtlasScientificCommand.board_version
    firmware_version,  \* AtlasScientificCommand.firmware_version
    init_error,        \* AtlasScientificCommand.init_error
    probes,            \* get_board_version() calls made for the controller
    value,             \* measurements_dict[0]['value'] ("unset" when no key)
    transport_total,   \* queries the device has received so far
    last               \* record of the last call

vars == <<interface, testing, comp_id, max_age, phase, atlas_device, atlas_command,
          setup, cmd_phase, cmd_device, measurement, board_version,
          firmware_version, init_error, probes, value, transport_total, last>>

cfgVars == <<interface, testing, comp_id, max_age>>
pipeVars == <<phase, atlas_device, atlas_command, value>>
cmdVars == <<cmd_phase, cmd_device, measurement, board_version,
             firmware_version, init_error, probes>>

----------------------------------------------------------------------------
(* Bounds of the model *)

\* device queries after which no further measurement cycle is started
MaxQueries == 2
\* comma-separated fields of an I2C payload
MaxFields == 3
\* text lines of a UART/FTDI response
MaxLines == 2

\* 'default_value' of the custom option max_age
DefaultMaxAge == 120

----------------------------------------------------------------------------
(* Python values *)

None == <<"None">>
PyStr(s) == <<"str", s>>
PyNum(x) == <<"num", x>>
\* a Python list
PyList(seq) == <<"list", seq>>
\* a device response handed back as a Python value
PyResp(r) == <<"resp", r>>
\* (a Format that loses its operand)
FormatDropsOperand(template, x) == <<"fmt", template, <<"None">>>>

\* template.format(x): the template with str(x) substituted
Format(template, x) == <<"fmt", template, x>>
\* an exception instance of the given type, raised by the k-th send of a call
Exc(type, k) == <<"exc", type, k>>

Dev == <<"obj", "atlas_device">>
Cmd == <<"obj", "atlas_command">>
\* an attribute that was never assigned
NoAttr == <<"noattr">>
\* measurements_dict[0] has no 'value' key yet
Unset == <<"unset">>

\* Python truthiness of the values used as conditions
Truthy(v) == v # None /\ v # PyStr("") /\ v # PyNum(0) /\ v # NoAttr

Interfaces == {"I2C", "UART", "FTDI", "OTHER"}

----------------------------------------------------------------------------
(* Inputs *)

Commands == {"ec_dry", "ec_low", "ec_high", "temperature",
             "clear_calibration", "continuous", "low", "mid", "high",
             "calibrated", "end", "bogus"}
NamedCommands == Commands \ {"bogus"}
Amounts == {None, PyNum(0), PyNum(25)}
Customs == {None, PyStr(""), PyStr("R")}
SendArgs == {None, PyStr(""), PyStr("R")}

\* get_board_version(): (measurement, board_version, firmware_version)
BoardInfos == {<<"pH", 1, "5.0">>, <<"pH", 2, "1.98">>, <<"NA", 0, "NA">>}

\* outcome of one device query: a response or an exception
Raise(type) == [kind |-> "raise", exc |-> type]
Ok(resp) == [kind |-> "ok", resp |-> resp]

Tokens == {PyStr("7.00"), PyStr("4.01"), PyStr("abc")}
Lines == {PyStr("7.00"), PyStr("4.01"), PyStr("abc"), PyStr("check probe")}
Statuses == {"success", "error", "busy"}

SeqsUpTo(S, n) == UNION {[1..k -> S] : k \in 0..n}

\* fields of a comma payload that the code never parses on their own
Fillers == {PyStr("7.00"), PyStr("abc")}

\* payloads of n fields: any token as the whole payload and as the field at
\* index 2 (the third), a filler elsewhere
Payloads(n) ==
    {p \in [1..n -> Tokens] :
        \A i \in 1..n : (n > 1 /\ i # 3) => p[i] \in Fillers}

\* I2C: (status, payload); the payload is kept as its comma-separated fields
\* (the payload is varied only where the code reads it: status "success")
I2CResponses ==
    {<<"success", p>> : p \in UNION {Payloads(n) : n \in 1..MaxFields}}
    \cup {<<st, <<PyStr("abc")>>>> : st \in Statuses \ {"success"}}
\* UART/FTDI: (status, lines); lines may be absent
LineResponses ==
    {<<"success", ls>> : ls \in {PyList(l) : l \in SeqsUpTo(Lines, MaxLines)}
                                \cup {None}}

Responses(kind) ==
    IF kind = "I2C" THEN I2CResponses ELSE LineResponses

DevOutcomes(kind) == {Ok(r) : r \in Responses(kind)} \cup {Raise("IOError")}

\* outcomes of a query that carries a calibration command
CmdResponses(kind) ==
    IF kind = "I2C" THEN {<<"success", <<PyStr("OK")>>>>}
    ELSE {<<"success", PyList(<<PyStr("OK")>>)>>}
CmdOutcomes(kind) == {Ok(r) : r \in CmdResponses(kind)} \cup {Raise("IOError")}

----------------------------------------------------------------------------
(* Outcomes and traces of a call *)

Return(v) == [kind |-> "return", val |-> v]
Raised(e) == [kind |-> "raise", exc |-> e]

EvSend(c) == <<"send_command", c>>
EvQuery(c) == <<"query", c>>
EvSleep(ms) == <<"sleep", ms>>
EvCalibrate(c, x) == <<"calibrate", c, x>>
EvRaise(e) == <<"raise", e>>
\* get_last_measurement(..., max_age=age_bound) on the store returned found
EvLookup(store, age_bound, found) == <<"lookup", store, age_bound, found>>
\* the device answered the query before it with resp
EvAnswer(resp) == <<"answer", resp>>

\* the arguments of the send_command entries of a trace, in order
RECURSIVE Sends(_)
Sends(tr) ==
    IF tr = <<>> THEN <<>>
    ELSE IF Head(tr)[1] = "send_command" THEN <<Head(tr)[2]>> \o Sends(Tail(tr))
    ELSE Sends(Tail(tr))

\* the commands the device received in a trace, in order
RECURSIVE Queries(_)
Queries(tr) ==
    IF tr = <<>> THEN <<>>
    ELSE IF Head(tr)[1] = "query" THEN <<Head(tr)[2]>> \o Queries(Tail(tr))
    ELSE Queries(Tail(tr))

\* the exceptions raised in a trace, in order
RECURSIVE Raises(_)
Raises(tr) ==
    IF tr = <<>> THEN <<>>
    ELSE IF Head(tr)[1] = "raise" THEN <<Head(tr)[2]>> \o Raises(Tail(tr))
    ELSE Raises(Tail(tr))

\* the sleeps of a trace, in order
RECURSIVE Sleeps(_)
Sleeps(tr) ==
    IF tr = <<>> THEN <<>>
    ELSE IF Head(tr)[1] = "sleep" THEN <<Head(tr)[2]>> \o Sleeps(Tail(tr))
    ELSE Sleeps(Tail(tr))

----------------------------------------------------------------------------
(* AtlasScientificCommand *)

\* self.ph_sensor_uart and self.ph_sensor_i2c are set to None in __init__ and
\* never assigned again; self.ph_sensor_ftdi is never assigned at all.
ph_sensor_uart == None
ph_sensor_i2c == None
ph_sensor_ftdi == NoAttr

\* obj.query(c) as the k-th send of a call; out is what the device would do
Query(obj, c, k, out) ==
    IF obj = NoAttr \/ obj = None
    THEN [res |-> Raised(Exc("AttributeError", k)),
          trace |-> <<EvRaise(Exc("AttributeError", k))>>]
    ELSE IF out.kind = "raise"
    THEN [res |-> Raised(Exc(out.exc, k)),
          trace |-> <<EvQuery(c), EvRaise(Exc(out.exc, k))>>]
    ELSE [res |-> Return(PyResp(out.resp)), trace |-> <<EvQuery(c)>>]

\* the query made by the interface branch of send_command
Dispatch(c, k, out) ==
    IF interface = "FTDI" THEN Query(ph_sensor_ftdi, c, k, out)
    ELSE IF interface = "UART" THEN Query(ph_sensor_uart, c, k, out)
    ELSE IF interface = "I2C" THEN Query(ph_sensor_i2c, c, k, out)
    ELSE [res |-> Return(PyStr("No message")), trace |-> <<>>]

\* (an except clause that re-raises)
ExceptPropagates(e) == [kind |-> "raise", exc |-> e]

\* what send_command does with an exception raised inside its try block
Except(e) == Return(<<PyNum(1), e>>)

\* the rest of send_command once the query q of its interface branch is made
AfterDispatch(cmd_send, q) ==
    IF q.res.kind = "raise"
    THEN [ret |-> Except(q.res.exc),
          trace |-> <<EvSend(cmd_send)>> \o q.trace]
    ELSE [ret |-> Return(<<PyNum(0), q.res.val>>),
          trace |-> <<EvSend(cmd_send)>> \o q.trace \o <<EvSleep(100)>>]

\* (a send_command that tests "if cmd_send" instead of "is not None")
send_command_truthy(cmd_send, k, out) ==
    IF Truthy(cmd_send)
    THEN AfterDispatch(cmd_send, Dispatch(cmd_send, k, out))
    ELSE [ret |-> Return(<<PyNum(1), PyStr("No command given")>>),
          trace |-> <<EvSend(cmd_send)>>]

send_command(cmd_send, k, out) ==
    IF cmd_send # None
    THEN AfterDispatch(cmd_send, Dispatch(cmd_send, k, out))
    ELSE [ret |-> Return(<<PyNum(1), PyStr("No command given")>>),
          trace |-> <<EvSend(cmd_send)>>]

NoSend(err, msg) == [ret |-> Return(<<err, msg>>), trace |-> <<>>]

\* (a clear_calibration that reports the result of the second send)
TwoSendsReportSecond(a, b) ==
    IF a.ret.kind = "raise" THEN a
    ELSE [ret |-> b.ret, trace |-> a.trace \o b.trace]

\* err, msg = self.send_command('X'); self.send_command('L0')
TwoSends(a, b) ==
    IF a.ret.kind = "raise" THEN a
    ELSE [ret |-> IF b.ret.kind = "raise" THEN b.ret ELSE a.ret,
          trace |-> a.trace \o b.trace]

ClearLegacy(outs) ==
    TwoSends(send_command(PyStr("X"), 1, outs[1]),
             send_command(PyStr("L0"), 2, outs[2]))

CalibratedLegacy ==
    NoSend(PyStr("success"),
           PyStr("Calibrated query not implemented on board version 1 (assume it was successfully calibrated)"))

\* what a branch of calibrate's if/elif chain does
One(c) == [kind |-> "one", cmd |-> c]
Other(k) == [kind |-> k, cmd |-> None]

\* the if/elif chain of calibrate: the branch taken and the literal it hands
\* to send_command ("default": no branch assigns err, msg)
calibrate_branch(self, command, set_amount, custom_cmd) ==
    LET board_ver == self.board_version IN
    IF command = "ec_dry" THEN
        IF board_ver = 2 THEN One(PyStr("cal,dry")) ELSE Other("default")
    ELSE IF command = "ec_low" THEN
        IF board_ver = 2 THEN One(Format("cal,low,{}", set_amount))
        ELSE Other("default")
    ELSE IF command = "ec_high" THEN
        IF board_ver = 2 THEN One(Format("cal,high,{}", set_amount))
        ELSE Other("default")
    ELSE IF command = "temperature" /\ set_amount # None THEN
        IF board_ver = 1 THEN One(set_amount)
        ELSE IF board_ver = 2 THEN One(Format("T,{}", set_amount))
        ELSE Other("default")
    ELSE IF command = "clear_calibration" THEN
        IF board_ver = 1 THEN Other("clear_legacy")
        ELSE IF board_ver = 2 THEN One(PyStr("Cal,clear"))
        ELSE Other("default")
    ELSE IF command = "continuous" THEN
        IF board_ver = 1 THEN One(PyStr("C"))
        ELSE IF board_ver = 2 THEN One(PyStr("C,1"))
        ELSE Other("default")
    ELSE IF command = "low" THEN
        IF board_ver = 1 THEN One(PyStr("F"))
        ELSE IF board_ver = 2 THEN One(PyStr("Cal,low,4.00"))
        ELSE Other("default")
    ELSE IF command = "mid" THEN
        IF board_ver = 1 THEN One(PyStr("S"))
        ELSE IF board_ver = 2 THEN One(PyStr("Cal,mid,7.00"))
        ELSE Other("default")
    ELSE IF command = "high" THEN
        IF board_ver = 1 THEN One(PyStr("T"))
        ELSE IF board_ver = 2 THEN One(PyStr("Cal,high,10.00"))
        ELSE Other("default")
    ELSE IF command = "calibrated" THEN
        IF board_ver = 1 THEN Other("calibrated_legacy")
        ELSE IF board_ver = 2 THEN One(PyStr("Cal,?"))
        ELSE Other("default")
    ELSE IF command = "end" THEN
        IF board_ver = 1 THEN One(PyStr("E"))
        ELSE IF board_ver = 2 THEN One(PyStr("C,0"))
        ELSE Other("default")
    ELSE IF Truthy(custom_cmd) THEN One(custom_cmd)
    ELSE Other("default")

\* err = 1; msg = "Default message"; if self.init_error: msg = self.init_error
DefaultResult(self) ==
    NoSend(PyNum(1), IF Truthy(self.init_error) THEN self.init_error
                     ELSE PyStr("Default message"))

\* what the branch b of the chain does, and the (err, msg) calibrate returns
TakeBranch(self, b, outs) ==
    IF b.kind = "one" THEN send_command(b.cmd, 1, outs[1])
    ELSE IF b.kind = "clear_legacy" THEN ClearLegacy(outs)
    ELSE IF b.kind = "calibrated_legacy" THEN CalibratedLegacy
    ELSE DefaultResult(self)

calibrate(self, command, set_amount, custom_cmd, outs) ==
    TakeBranch(self, calibrate_branch(self, command, set_amount, custom_cmd),
               outs)

\* the diagnostic stored by __init__ when board_version == 0
InitErrorMsg(info) ==
    Format("Atlas Scientific board initialization unsuccessful. Unable to retrieve device info (this indicates the device was not properly initialized or connected). Returned: {}, {}, {}", info)

\* AtlasScientificCommand.__init__(input_dev, sensor): devctor is the outcome
\* of constructing a device object, probe that of get_board_version()
\* a constructor that asks for the board version a second time
CommandInitProbesTwice(sensor, devctor, probe) ==
    IF ~Truthy(sensor) /\ (interface \notin {"FTDI", "UART", "I2C"}
                           \/ devctor # "ok")
    THEN [res |-> IF interface \in {"FTDI", "UART", "I2C"}
                  THEN Raised("IOError") ELSE Raised("AttributeError"),
          probes |-> 0]
    ELSE IF probe.kind = "raise" THEN [res |-> Raised(probe.exc), probes |-> 1]
    ELSE [res |-> Return([atlas_device |-> IF Truthy(sensor) THEN sensor ELSE Dev,
                          measurement |-> probe.resp[1],
                          board_version |-> probe.resp[2],
                          firmware_version |-> probe.resp[3],
                          init_error |-> IF probe.resp[2] = 0
                                         THEN InitErrorMsg(probe.resp)
                                         ELSE None]),
          probes |-> 2]

CommandInit(sensor, devctor, probe) ==
    LET dev == IF Truthy(sensor) THEN Return(sensor)
               ELSE IF interface \in {"FTDI", "UART", "I2C"}
               THEN (IF devctor = "ok" THEN Return(Dev) ELSE Raised("IOError"))
               ELSE Raised("AttributeError")
    IN
    IF dev.kind = "raise" THEN [res |-> dev, probes |-> 0]
    ELSE IF probe.kind = "raise" THEN [res |-> Raised(probe.exc), probes |-> 1]
    ELSE [res |-> Return([atlas_device |-> dev.val,
                          measurement |-> probe.resp[1],
                          board_version |-> probe.resp[2],
                          firmware_version |-> probe.resp[3],
                          init_error |-> IF probe.resp[2] = 0
                                         THEN InitErrorMsg(probe.resp)
                                         ELSE None]),
          probes |-> 1]

ProbeOutcomes == {Ok(b) : b \in BoardInfos} \cup {Raise("IOError")}

----------------------------------------------------------------------------
(* InputModule (atlas_ph.py) *)

\* mycodo.utils.system_pi.str_is_float on one token (None: nothing found)
str_is_float(text) == text \in {PyStr("7.00"), PyStr("4.01")}

\* float(text) of a token str_is_float accepts, in hundredths
float(text) == IF text = PyStr("7.00") THEN 700 ELSE 401

\* constraints_pass_positive_value(mod_input, value): all_passed
constraints_pass_positive_value(v) == ~(v <= 0)

\* values a user may enter for the option max_age, and those that are saved
MaxAgeInputs == {0, DefaultMaxAge}
MaxAges == {v \in MaxAgeInputs : constraints_pass_positive_value(v)}

\* what the measurement store holds for the compensation source: nothing, or
\* a temperature with its age in seconds
Sample(age, v) == <<"sample", age, v>>
Stores(bound) == {None} \cup {Sample(a, PyNum(25)) : a \in {bound, bound + 1}}
\* without a configured compensation source there is no store to hold one
SourceStores(configured, bound) == IF configured THEN Stores(bound) ELSE {None}

\* what get_last_measurement can return: None or (timestamp, value)
Samples == {None, <<"ts", PyNum(25)>>}

\* AbstractInput.get_last_measurement(device_id, measurement_id, max_age) on
\* the store: the latest sample if it is at most max_age seconds old
get_last_measurement(store, age_bound) ==
    IF store # None /\ store[2] <= age_bound THEN <<"ts", store[3]>> ELSE None

\* AbstractInput.value_set(0, ph) on measurements_dict[0]: its 'value' after
value_set(old, ph) == ph

\* the part of get_measurement that compensates the temperature
\* after c = atlas_command.calibrate('temperature', set_amount=temp)
\* a cycle that gives up when the calibration did not return 0
AfterCalibrateStopsOnErr(temp, c) ==
    IF c.ret.kind = "raise" \/ c.ret.val[1] # PyNum(0)
    THEN [raised |-> TRUE,
          exc |-> IF c.ret.kind = "raise" THEN c.ret.exc ELSE Exc("IOError", 0),
          trace |-> <<EvCalibrate("temperature", temp)>> \o c.trace]
    ELSE [raised |-> FALSE, exc |-> None,
          trace |-> <<EvCalibrate("temperature", temp)>>
                    \o c.trace \o <<EvSleep(500)>>]

AfterCalibrate(temp, c) ==
    IF c.ret.kind = "raise"
    THEN [raised |-> TRUE, exc |-> c.ret.exc,
          trace |-> <<EvCalibrate("temperature", temp)>> \o c.trace]
    ELSE [raised |-> FALSE, exc |-> None,
          trace |-> <<EvCalibrate("temperature", temp)>>
                    \o c.trace \o <<EvSleep(500)>>]

\* after last_measurement = self.get_last_measurement(...)
AfterLookup(self, last_measurement, outs) ==
    IF last_measurement # None
    THEN AfterCalibrate(last_measurement[2],
             calibrate(self.command, "temperature", last_measurement[2], None,
                       outs))
    ELSE [raised |-> FALSE, exc |-> None, trace |-> <<>>]

\* the lookup is put in front of the trace of what followed it
Looked(store, age_bound, found, c) ==
    [raised |-> c.raised, exc |-> c.exc,
     trace |-> <<EvLookup(store, age_bound, found)>> \o c.trace]

\* a lookup that passes max_age + 1 as the age bound
CompensateOffByOne(self, store, outs) ==
    IF comp_id /\ Truthy(self.atlas_command)
    THEN Looked(store, self.max_age + 1,
                get_last_measurement(store, self.max_age + 1),
                AfterLookup(self, get_last_measurement(store, self.max_age + 1),
                            outs))
    ELSE [raised |-> FALSE, exc |-> None, trace |-> <<>>]

Compensate(self, store, outs) ==
    IF comp_id /\ Truthy(self.atlas_command)
    THEN Looked(store, self.max_age,
                get_last_measurement(store, self.max_age),
                AfterLookup(self, get_last_measurement(store, self.max_age),
                            outs))
    ELSE [raised |-> FALSE, exc |-> None, trace |-> <<>>]

\* first element of ph_list that str_is_float accepts, or None
RECURSIVE FirstFloat(_)
FirstFloat(ph_list) ==
    IF ph_list = <<>> THEN None
    ELSE IF str_is_float(Head(ph_list)) THEN Head(ph_list)
    ELSE FirstFloat(Tail(ph_list))

Contains(seq, x) == \E i \in 1..Len(seq) : seq[i] = x

\* the FTDI/UART branch on the response (ph_status, ph_list): ph or an error
\* a parser that takes the first float before it looks for "check probe"
ParseLinesFloatFirst(resp) ==
    IF resp[2] = None THEN Raised(Exc("TypeError", 0))
    ELSE IF FirstFloat(resp[2][2]) # None /\ str_is_float(FirstFloat(resp[2][2]))
    THEN Return(PyNum(float(FirstFloat(resp[2][2]))))
    ELSE Return(None)

ParseLines(resp) ==
    IF resp[2] = None THEN Raised(Exc("TypeError", 0))
    ELSE LET ph_list == resp[2][2]
             float_value == FirstFloat(ph_list)
         IN
         IF Contains(ph_list, PyStr("check probe")) THEN Return(None)
         ELSE IF float_value # None /\ str_is_float(float_value)
         THEN Return(PyNum(float(float_value)))
         ELSE Return(None)

\* the I2C branch on the response (ph_status, ph_str); ph_str is given by its
\* comma-separated fields, so ',' in ph_str is Len > 1 and
\* ph_str.split(',')[2] is the third field
ParseI2C(resp) ==
    LET ph_status == resp[1]
        fields == resp[2]
    IN
    IF ph_status = "error" THEN Return(None)
    ELSE IF ph_status = "success" THEN
        IF Len(fields) > 1 /\ Len(fields) < 3 THEN Raised(Exc("IndexError", 0))
        ELSE IF Len(fields) > 1 /\ str_is_float(fields[3])
        THEN Return(PyNum(float(fields[3])))
        ELSE IF Len(fields) = 1 /\ str_is_float(fields[1])
        THEN Return(PyNum(float(fields[1])))
        ELSE Return(None)
    ELSE Return(None)

\* a raw read that asks the device twice
ReadRawTwice(rout) ==
    IF interface \in {"FTDI", "UART", "I2C"}
    THEN IF rout.kind = "raise"
         THEN [ph |-> Raised(Exc(rout.exc, 0)),
               trace |-> <<EvQuery(PyStr("R")), EvRaise(Exc(rout.exc, 0))>>]
         ELSE [ph |-> IF interface = "I2C" THEN ParseI2C(rout.resp)
                      ELSE ParseLines(rout.resp),
               trace |-> <<EvQuery(PyStr("R")), EvQuery(PyStr("R")),
                           EvAnswer(rout.resp)>>]
    ELSE [ph |-> Return(None), trace |-> <<>>]

\* the raw read and the parsing of its response
ReadRaw(rout) ==
    IF interface \in {"FTDI", "UART", "I2C"}
    THEN IF rout.kind = "raise"
         THEN [ph |-> Raised(Exc(rout.exc, 0)),
               trace |-> <<EvQuery(PyStr("R")), EvRaise(Exc(rout.exc, 0))>>]
         ELSE [ph |-> IF interface = "I2C" THEN ParseI2C(rout.resp)
                      ELSE ParseLines(rout.resp),
               trace |-> <<EvQuery(PyStr("R")), EvAnswer(rout.resp)>>]
    ELSE [ph |-> Return(None), trace |-> <<>>]

\* the dict get_measurement returns, by the value stored at index 0
Dict(ph) == <<"dict", ph>>

\* a cycle that calls value_set only when it has a reading
CycleKeepsValue(c, r) ==
    IF c.raised
    THEN [ret |-> Raised(c.exc), trace |-> c.trace, value |-> value]
    ELSE IF r.ph.kind = "raise"
    THEN [ret |-> r.ph, trace |-> c.trace \o r.trace, value |-> value]
    ELSE IF r.ph.val = None
    THEN [ret |-> Return(Dict(IF value = Unset THEN None ELSE value)),
          trace |-> c.trace \o r.trace,
          value |-> IF value = Unset THEN None ELSE value]
    ELSE [ret |-> Return(Dict(value_set(value, r.ph.val))),
          trace |-> c.trace \o r.trace,
          value |-> value_set(value, r.ph.val)]

\* get_measurement past the set-up check: c is the compensation step, r the
\* raw read with its parsing; value_set(0, ph) and the returned dict
Cycle(c, r) ==
    IF c.raised
    THEN [ret |-> Raised(c.exc), trace |-> c.trace, value |-> value]
    ELSE IF r.ph.kind = "raise"
    THEN [ret |-> r.ph, trace |-> c.trace \o r.trace, value |-> value]
    ELSE [ret |-> Return(Dict(value_set(value, r.ph.val))),
          trace |-> c.trace \o r.trace,
          value |-> value_set(value, r.ph.val)]

\* get_measurement without the test of atlas_device.setup
get_measurement_unchecked(self, store, outs, rout) ==
    IF self.atlas_device = None
    THEN [ret |-> Raised(Exc("AttributeError", 0)), trace |-> <<>>, value |-> value]
    ELSE Cycle(Compensate(self, store, outs), ReadRaw(rout))

\* get_measurement() of the InputModule self: ret is the outcome, value the
\* content of measurements_dict[0]['value'] afterwards
get_measurement(self, store, outs, rout) ==
    IF self.atlas_device = None
    THEN [ret |-> Raised(Exc("AttributeError", 0)), trace |-> <<>>, value |-> value]
    ELSE IF ~self.setup
    THEN [ret |-> Return(None), trace |-> <<>>, value |-> value]
    ELSE Cycle(Compensate(self, store, outs), ReadRaw(rout))

\* initialize_sensor(): the device object, or the exception of its constructor
initialize_sensor(devctor) ==
    IF interface \in {"FTDI", "UART", "I2C"}
    THEN (IF devctor = "ok" THEN Return(Dev) ELSE Raised("IOError"))
    ELSE Return(None)

\* the try block of InputModule.__init__: the fields it leaves behind
\* (cmd: the outcome of constructing the AtlasScientificCommand, when tried)
InitTry(devctor, probe) ==
    LET d == initialize_sensor(devctor) IN
    IF d.kind = "raise"
    THEN [atlas_device |-> None, tried |-> FALSE,
          cmd |-> [res |-> d, probes |-> 0]]
    ELSE IF comp_id
    THEN [atlas_device |-> d.val, tried |-> TRUE,
          cmd |-> CommandInit(d.val, devctor, probe)]
    ELSE [atlas_device |-> d.val, tried |-> FALSE,
          cmd |-> [res |-> Raised("none"), probes |-> 0]]

----------------------------------------------------------------------------
(* State machine *)

NoCall == [op |-> "none", args |-> <<>>, ret |-> Return(None), trace |-> <<>>]

\* the AtlasScientificCommand object of the current state
CmdSelf ==
    [atlas_device |-> cmd_device, measurement |-> measurement,
     board_version |-> board_version, firmware_version |-> firmware_version,
     init_error |-> init_error]

\* the InputModule object of the current state
PipeSelf ==
    [atlas_device |-> atlas_device, setup |-> setup,
     atlas_command |-> atlas_command, command |-> CmdSelf,
     max_age |-> max_age]

Init ==
    /\ interface \in Interfaces
    /\ testing \in BOOLEAN
    /\ comp_id \in BOOLEAN
    /\ max_age \in MaxAges
    /\ phase = "new"
    /\ atlas_device = None
    /\ atlas_command = None
    /\ setup = FALSE
    /\ cmd_phase = "none"
    /\ cmd_device = None
    /\ measurement = None
    /\ board_version = None
    /\ firmware_version = None
    /\ init_error = None
    /\ probes = 0
    /\ value = Unset
    /\ transport_total = 0
    /\ last = NoCall

\* the fields of a constructed AtlasScientificCommand become the state
SetCommand(obj, n) ==
    /\ cmd_phase' = "ready"
    /\ cmd_device' = obj.atlas_device
    /\ measurement' = obj.measurement
    /\ board_version' = obj.board_version
    /\ firmware_version' = obj.firmware_version
    /\ init_error' = obj.init_error
    /\ probes' = n

\* a call of the controller returned r: it is recorded, and the queries the
\* device received are counted
Called(op, args, r) ==
    /\ last' = [op |-> op, args |-> args, ret |-> r.ret, trace |-> r.trace]
    /\ transport_total' = transport_total + Len(Queries(r.trace))

\* a measurement cycle returned r
Measured(r) ==
    /\ Called("get_measurement", <<>>, r)
    /\ value' = r.value

\* AtlasScientificCommand(input_dev, sensor) ended as r
Constructed(sensor, r) ==
    /\ IF r.res.kind = "raise"
       THEN /\ cmd_phase' = "ctor_raised"
            /\ probes' = r.probes
            /\ UNCHANGED <<cmd_device, measurement, board_version,
                           firmware_version, init_error>>
       ELSE SetCommand(r.res.val, r.probes)
    /\ last' = [op |-> "AtlasScientificCommand", args |-> <<sensor>>,
                ret |-> IF r.res.kind = "raise" THEN r.res ELSE Return(Cmd),
                trace |-> <<>>]

\* the host constructs an AtlasScientificCommand of its own
AtlasScientificCommand_init ==
    /\ cmd_phase # "ready"
    /\ \E sensor \in {None, Dev}, devctor \in {"ok", "raise"},
          probe \in ProbeOutcomes :
          Constructed(sensor, CommandInit(sensor, devctor, probe))
    /\ UNCHANGED <<cfgVars, pipeVars, setup, transport_total>>

Calibrate ==
    /\ cmd_phase = "ready"
    /\ \E command \in Commands, set_amount \in Amounts, custom_cmd \in Customs,
          outs \in [1..2 -> CmdOutcomes(interface)] :
          Called("calibrate", <<command, set_amount, custom_cmd>>,
                 calibrate(CmdSelf, command, set_amount, custom_cmd, outs))
    /\ UNCHANGED <<cfgVars, pipeVars, setup, cmdVars>>

SendCommand ==
    /\ cmd_phase = "ready"
    /\ \E cmd_send \in SendArgs, out \in CmdOutcomes(interface) :
          Called("send_command", <<cmd_send>>, send_command(cmd_send, 1, out))
    /\ UNCHANGED <<cfgVars, pipeVars, setup, cmdVars>>

GetMeasurement ==
    /\ phase = "ready"
    /\ transport_total < MaxQueries
    /\ \E store \in SourceStores(comp_id, max_age), out \in CmdOutcomes(interface),
          rout \in DevOutcomes(interface) :
          Measured(get_measurement(PipeSelf, store, <<out, out>>, rout))
    /\ UNCHANGED <<cfgVars, phase, atlas_device, atlas_command, setup, cmdVars>>

\* atlas_device.setup belongs to the device object and is read anew at the
\* start of every cycle: the device may change it between two cycles
DeviceSetupChange ==
    /\ phase = "ready"
    /\ atlas_device # None
    /\ setup' = ~setup
    /\ last' = [op |-> "device.setup", args |-> <<>>, ret |-> Return(None),
                trace |-> <<>>]
    /\ UNCHANGED <<cfgVars, phase, atlas_device, atlas_command, cmdVars, value,
                   transport_total>>

\* the AtlasScientificCommand the try block built, if it built one
Built(t) == t.tried /\ t.cmd.res.kind = "return"

\* the InputModule as the try block t leaves it
SelfAfterTry(t, devsetup) ==
    [atlas_device |-> t.atlas_device,
     setup |-> (t.atlas_device # None /\ devsetup),
     atlas_command |-> IF Built(t) THEN Cmd ELSE None,
     command |-> IF Built(t) THEN t.cmd.res.val ELSE CmdSelf,
     max_age |-> max_age]

\* the first get_measurement() of __init__ ended as r
FirstMeasurement(r) ==
    /\ phase' = IF r.ret.kind = "raise" THEN "ctor_raised" ELSE "ready"
    /\ value' = r.value
    /\ transport_total' = transport_total + Len(Queries(r.trace))
    /\ last' = [op |-> "InputModule", args |-> <<>>,
                ret |-> IF r.ret.kind = "raise" THEN r.ret ELSE Return(None),
                trace |-> r.trace]

StoreSelf(self) ==
    /\ atlas_device' = self.atlas_device
    /\ atlas_command' = self.atlas_command
    /\ setup' = self.setup

\* the rest of __init__ after the try block t
AfterTry(t, devsetup, store, outs, rout) ==
    /\ StoreSelf(SelfAfterTry(t, devsetup))
    /\ IF Built(t) THEN SetCommand(t.cmd.res.val, t.cmd.probes)
       ELSE UNCHANGED cmdVars
    /\ FirstMeasurement(get_measurement(SelfAfterTry(t, devsetup), store,
                                        outs, rout))

\* InputModule.__init__(input_dev, testing): the try block, then the first
\* get_measurement() whose result is thrown away
InputModule_init ==
    /\ phase = "new"
    /\ IF testing
       THEN /\ phase' = "ready"
            /\ last' = [op |-> "InputModule", args |-> <<>>,
                        ret |-> Return(None), trace |-> <<>>]
            /\ UNCHANGED <<atlas_device, atlas_command, setup, cmdVars, value,
                           transport_total>>
       ELSE \E devctor \in {"ok", "raise"}, devsetup \in BOOLEAN,
               probe \in ProbeOutcomes, store \in SourceStores(comp_id, max_age),
               out \in CmdOutcomes(interface),
               rout \in DevOutcomes(interface) :
               AfterTry(InitTry(devctor, probe), devsetup, store,
                        <<out, out>>, rout)
    /\ UNCHANGED cfgVars

Next ==
    \/ AtlasScientificCommand_init
    \/ InputModule_init
    \/ Calibrate
    \/ SendCommand
    \/ GetMeasurement
    \/ DeviceSetupChange

Spec == Init /\ [][Next]_vars

\* The controller used on its own by a host that constructs it and calls
\* calibrate() and send_command() in any order
InitCommand == Init /\ ~testing /\ ~comp_id /\ max_age = DefaultMaxAge

NextCommand ==
    \/ AtlasScientificCommand_init
    \/ Calibrate
    \/ SendCommand

SpecCommand == InitCommand /\ [][NextCommand]_vars

\* The input module: its construction and its measurement cycles
NextInput ==
    \/ InputModule_init
    \/ GetMeasurement
    \/ DeviceSetupChange

SpecInput == Init /\ [][NextInput]_vars

----------------------------------------------------------------------------
(* Properties of calibrate() and send_command() *)

\* the last call was calibrate() on a constructed controller
IsCalibrate == cmd_phase = "ready" /\ last.op = "calibrate"
IsSend == cmd_phase = "ready" /\ last.op = "send_command"
LastCommand == last.args[1]
LastAmount == last.args[2]
LastCustom == last.args[3]
\* (err, msg) of a call that returned
LastErr == last.ret.val[1]
LastMsg == last.ret.val[2]

\* C1: with board generation Unknown (0), every calibrate() call, whatever the
\* command, operand and custom literal, returns the stored init diagnostic as
\* its message and the device receives no query.
C1_UnknownShortCircuits ==
    (IsCalibrate /\ board_version = 0) =>
        /\ last.ret.kind = "return"
        /\ LastMsg = init_error
        /\ Queries(last.trace) = <<>>

\* C2: send_command with a non-empty literal makes exactly one query, of that
\* literal, to the device bound at construction; an Err result comes only
\* from a failure of that device, and otherwise the 100 ms settle delay is
\* performed and (Ok, response of the device) is returned.
C2_SendDispatchesToDevice ==
    (IsSend /\ Truthy(last.args[1])) =>
        /\ Queries(last.trace) = <<last.args[1]>>
        /\ last.ret.kind = "return"
        /\ \/ /\ LastErr = PyNum(0)
              /\ LastMsg[1] = "resp"
              /\ Sleeps(last.trace) = <<100>>
           \/ /\ LastErr = PyNum(1)
              /\ LastMsg = Exc("IOError", 1)

\* C3 as stated: send_command("") and send_command(None) both return
\* (Err, "No command given") and make no device query.
C3_EmptyAndNoneRejected ==
    (IsSend /\ last.args[1] \in {None, PyStr("")}) =>
        /\ last.ret = Return(<<PyNum(1), PyStr("No command given")>>)
        /\ Queries(last.trace) = <<>>

\* C3 as amended: send_command(None) returns (Err, "No command given") with no
\* device query and no settle delay; the empty string is not treated as
\* absent: it goes down the dispatch path and never yields "No command given".
C3_OnlyNoneRejected ==
    /\ (IsSend /\ last.args[1] = None) =>
           /\ last.ret = Return(<<PyNum(1), PyStr("No command given")>>)
           /\ Queries(last.trace) = <<>>
           /\ Sleeps(last.trace) = <<>>
    /\ (IsSend /\ last.args[1] = PyStr("")) =>
           /\ last.ret.kind = "return"
           /\ LastMsg # PyStr("No command given")

C3_Witness ==
    /\ IsSend
    /\ last.args[1] = None
    /\ last.ret = Return(<<PyNum(1), PyStr("No command given")>>)

\* the (command, generation) pairs of the translation table that map to one
\* literal; x is the operand, s the custom literal
C4_InTable(command, gen, x, s) ==
    \/ command \in {"ec_dry"} /\ gen = 2
    \/ command \in {"ec_low", "ec_high"} /\ gen = 2 /\ x # None
    \/ command = "temperature" /\ x # None
    \/ command \in {"continuous", "low", "mid", "high", "end"}
    \/ command \in {"clear_calibration", "calibrated"} /\ gen = 2
    \/ command \notin NamedCommands /\ s \notin {None, <<"str", "">>}

\* the literal the table gives
C4_Literal(command, gen, x, s) ==
    IF command = "ec_dry" THEN <<"str", "cal,dry">>
    ELSE IF command = "ec_low" THEN <<"fmt", "cal,low,{}", x>>
    ELSE IF command = "ec_high" THEN <<"fmt", "cal,high,{}", x>>
    ELSE IF command = "temperature"
    THEN (IF gen = 1 THEN x ELSE <<"fmt", "T,{}", x>>)
    ELSE IF command = "continuous"
    THEN (IF gen = 1 THEN <<"str", "C">> ELSE <<"str", "C,1">>)
    ELSE IF command = "low"
    THEN (IF gen = 1 THEN <<"str", "F">> ELSE <<"str", "Cal,low,4.00">>)
    ELSE IF command = "mid"
    THEN (IF gen = 1 THEN <<"str", "S">> ELSE <<"str", "Cal,mid,7.00">>)
    ELSE IF command = "high"
    THEN (IF gen = 1 THEN <<"str", "T">> ELSE <<"str", "Cal,high,10.00">>)
    ELSE IF command = "end"
    THEN (IF gen = 1 THEN <<"str", "E">> ELSE <<"str", "C,0">>)
    ELSE IF command = "clear_calibration" THEN <<"str", "Cal,clear">>
    ELSE IF command = "calibrated" THEN <<"str", "Cal,?">>
    ELSE s

\* C4: on Legacy (1) and Current (2) boards calibrate() hands send_command
\* exactly the one literal the translation table gives for (command,
\* generation, operand, custom literal), in every reachable state, i.e.
\* whatever calls came before.
C4_TranslationTable ==
    (/\ IsCalibrate
     /\ board_version \in {1, 2}
     /\ C4_InTable(LastCommand, board_version, LastAmount, LastCustom)) =>
        Sends(last.trace) =
            <<C4_Literal(LastCommand, board_version, LastAmount, LastCustom)>>

C4_Witness ==
    /\ IsCalibrate
    /\ board_version = 2
    /\ LastCommand = "ec_low"
    /\ LastAmount = PyNum(25)
    /\ Sends(last.trace) = <<(<<"fmt", "cal,low,{}", PyNum(25)>>)>>

\* the calls for which no mapping exists
C5_Unmapped ==
    \/ LastCommand \in {"ec_dry", "ec_low", "ec_high"} /\ board_version = 1
    \/ LastCommand = "temperature" /\ LastAmount = None
    \/ LastCommand \notin NamedCommands /\ ~Truthy(LastCustom)

\* C5: a calibrate() call with no mapping hands nothing to send_command or the
\* device and returns (Err, "Default message"), or (Err, init diagnostic) when
\* an init fault is recorded.
C5_UnmappedDefault ==
    (IsCalibrate /\ C5_Unmapped) =>
        /\ Sends(last.trace) = <<>>
        /\ Queries(last.trace) = <<>>
        /\ last.ret = Return(<<PyNum(1), IF init_error # None THEN init_error
                                         ELSE PyStr("Default message")>>)

\* C6: on a Legacy board calibrate('clear_calibration') makes exactly two
\* sends, X then L0, and returns the (status, message) of the X send: an
\* exception raised by the first send with status Err, or what send_command
\* returns for X alone.
C6_ClearLegacyTwoSends ==
    (IsCalibrate /\ board_version = 1 /\ LastCommand = "clear_calibration") =>
        /\ Sends(last.trace) = <<PyStr("X"), PyStr("L0")>>
        /\ last.ret.kind = "return"
        /\ \E out \in CmdOutcomes(interface) :
              last.ret = send_command(PyStr("X"), 1, out).ret
        /\ LastMsg # Exc("AttributeError", 2)
        /\ LastMsg # Exc("IOError", 2)

C6_Witness ==
    /\ IsCalibrate
    /\ board_version = 1
    /\ LastCommand = "clear_calibration"
    /\ Sends(last.trace) = <<PyStr("X"), PyStr("L0")>>
    /\ Len(Raises(last.trace)) = 2

\* C7: when calibrate() gets a named command and a custom literal, the custom
\* literal is never handed on for sending.
C7_NamedTakesPrecedence ==
    (IsCalibrate /\ LastCommand \in NamedCommands /\ Truthy(LastCustom)) =>
        /\ ~Contains(Sends(last.trace), LastCustom)
        /\ ~Contains(Queries(last.trace), LastCustom)

\* C8: on a Legacy board calibrate('calibrated') makes no device query and
\* returns status Ok, the status of a successful send_command, with the
\* message "not implemented on legacy board, assume calibrated".
C8_CalibratedLegacyOk ==
    (IsCalibrate /\ board_version = 1 /\ LastCommand = "calibrated") =>
        /\ Queries(last.trace) = <<>>
        /\ last.ret = Return(<<PyNum(0),
               PyStr("not implemented on legacy board, assume calibrated")>>)

\* C9: no send_command() or calibrate() call propagates an exception; an
\* exception raised while send_command talks to the device is returned as
\* (Err, that exception).
C9_FailuresAbsorbed ==
    /\ (IsCalibrate \/ IsSend) => last.ret.kind = "return"
    /\ (IsSend /\ Raises(last.trace) # <<>>) =>
           last.ret = Return(<<PyNum(1), Raises(last.trace)[1]>>)

C9_Witness ==
    /\ IsSend
    /\ Raises(last.trace) # <<>>
    /\ last.ret = Return(<<PyNum(1), Raises(last.trace)[1]>>)

\* C10: get_measurement() never lets an exception escape to its caller,
\* whatever response the raw read returns (the query itself not failing).
C10_CycleNeverRaises ==
    (/\ phase = "ready"
     /\ last.op = "get_measurement"
     /\ ~Contains(Raises(last.trace), Exc("IOError", 0))) =>
        last.ret.kind = "return"

-----------------------------------------------------------------------------
(* Properties of the measurement cycle *)

\* the last call was a measurement cycle of a constructed InputModule
IsCycle == phase = "ready" /\ last.op = "get_measurement"
\* ... on a device object that reports it was not set up
NotSetUpCycle == IsCycle /\ atlas_device # None /\ ~setup
\* ... on a device object that reports it was set up
SetUpCycle == IsCycle /\ atlas_device # None /\ setup

\* a return value that holds no measurement at any index
Absent(ret) ==
    ret.kind = "return" /\ (ret.val = None \/ ret.val = Dict(None))

\* C11: a cycle on a device that is not set up calls neither the controller
\* nor the transport (no temperature command, no raw read, nothing else),
\* returns no measurement at any index, and leaves the stored value at index 0
\* as it was (value_set is not called)
C11_NotSetUpSilent ==
    /\ [](NotSetUpCycle => last.trace = <<>> /\ Absent(last.ret))
    /\ [][NotSetUpCycle' => value' = value]_vars

\* a cycle on a device that is not set up, with a compensation source and a
\* controller, after a cycle that stored a reading
C11_Witness ==
    /\ NotSetUpCycle
    /\ comp_id /\ atlas_command # None
    /\ value = PyNum(700)

\* positions in a trace of the calls to calibrate, of the 500 ms settle and
\* of the raw read
CalibrateAt(tr) == {i \in 1..Len(tr) : tr[i][1] = "calibrate"}
SettleAt(tr) == {i \in 1..Len(tr) : tr[i][1] = "sleep" /\ tr[i][2] = 500}
RawReadAt(tr) == {i \in 1..Len(tr) : tr[i][1] = "query" /\ tr[i][2] = PyStr("R")}

\* the cycle looked up the compensation source and found a sample
Found(tr) == tr # <<>> /\ tr[1][1] = "lookup" /\ tr[1][4] # None
FoundValue(tr) == tr[1][4][2]

\* calibrate('temperature', temp), then the settle, then the raw read, each once
Ordered(tr, temp) ==
    /\ Cardinality(CalibrateAt(tr)) = 1
    /\ Cardinality(SettleAt(tr)) = 1
    /\ Cardinality(RawReadAt(tr)) = 1
    /\ \E i \in CalibrateAt(tr), j \in SettleAt(tr), k \in RawReadAt(tr) :
          /\ tr[i] = EvCalibrate("temperature", temp)
          /\ i < j /\ j < k

\* C12: in a cycle on a set-up device with a compensation source configured,
\* a found sample leads to calibrate('temperature', its value), then the 500 ms
\* settle, then the raw read "R", whatever calibrate returned; when no sample
\* is found nothing is calibrated or sent and the raw read still happens
C12_CompensateThenRead ==
    (SetUpCycle /\ comp_id) =>
        IF Found(last.trace)
        THEN Ordered(last.trace, FoundValue(last.trace))
        ELSE /\ CalibrateAt(last.trace) = {}
             /\ Sends(last.trace) = <<>>
             /\ Cardinality(RawReadAt(last.trace)) = 1

\* a cycle that found a sample, whose calibration failed, and that still
\* read and returned 7.00
C12_Witness ==
    /\ SetUpCycle /\ comp_id
    /\ Found(last.trace)
    /\ Sends(last.trace) # <<>>
    /\ Raises(last.trace) # <<>>
    /\ last.ret = Return(Dict(PyNum(700)))

\* the response the device gave to the raw read of a cycle
AnswerAt(tr) == {i \in 1..Len(tr) : tr[i][1] = "answer"}
Answered(tr) == AnswerAt(tr) # {}
Answer(tr) == tr[CHOOSE i \in AnswerAt(tr) : TRUE][2]

\* the reading an I2C response (status, fields) stands for: the third field
\* of a comma payload when it is a float, else the whole payload when it is a
\* float, else none
I2CReading(resp) ==
    IF resp[1] = "success" /\ Len(resp[2]) >= 3 /\ str_is_float(resp[2][3])
    THEN PyNum(float(resp[2][3]))
    ELSE IF resp[1] = "success" /\ Len(resp[2]) = 1 /\ str_is_float(resp[2][1])
    THEN PyNum(float(resp[2][1]))
    ELSE None

\* C13: an I2C cycle whose raw read was answered with status "error" or
\* "success" returns, at index 0, the float of the third comma field when
\* that parses, else the float of the whole payload when that parses, else
\* nothing; a comma payload of fewer than three fields gives nothing and is
\* not a failure
C13_I2CParsing ==
    (SetUpCycle /\ interface = "I2C" /\ Answered(last.trace)
        /\ Answer(last.trace)[1] \in {"error", "success"})
    => last.ret = Return(Dict(I2CReading(Answer(last.trace))))

\* the lines of a UART/FTDI response that are floats, by position
FloatLines(ls) == {i \in 1..Len(ls) : str_is_float(ls[i])}
Least(S) == CHOOSE i \in S : \A j \in S : i <= j

\* the reading a list of lines stands for: none when a line is "check
\* probe", else the first line that is a float, else none
LinesReading(ls) ==
    IF \E i \in 1..Len(ls) : ls[i] = PyStr("check probe") THEN None
    ELSE IF FloatLines(ls) # {} THEN PyNum(float(ls[Least(FloatLines(ls))]))
    ELSE None

\* a cycle over UART or FTDI whose raw read was answered with a list of lines
LinesCycle ==
    /\ SetUpCycle /\ interface \in {"UART", "FTDI"}
    /\ Answered(last.trace)
    /\ Answer(last.trace)[2] # None

\* C14: a UART/FTDI cycle returns nothing at index 0 when any line of the
\* response is "check probe" (even beside a float line), else the first line
\* in order that is a float, else nothing
C14_LinesParsing ==
    LinesCycle =>
        last.ret = Return(Dict(LinesReading(Answer(last.trace)[2][2])))

\* a float line before "check probe": nothing is returned
C14_Witness ==
    /\ LinesCycle
    /\ Answer(last.trace)[2] = PyList(<<PyStr("7.00"), PyStr("check probe")>>)
    /\ last.ret = Return(Dict(None))

\* C15: constructing the InputModule never raises: when the device object
\* could not be built (its constructor raised, or the interface is none of
\* I2C, UART and FTDI), __init__ still returns
C15_ConstructionNeverRaises ==
    (last.op = "InputModule" /\ ~testing /\ atlas_device = None)
    => last.ret.kind = "return"

\* the cycle looked up the compensation source: what the store held
LookedUp(tr) == tr # <<>> /\ tr[1][1] = "lookup"
StoreOf(tr) == tr[1][2]

\* the store holds a sample whose age is at most max_age
Fresh(store) == store # None /\ store[2] <= max_age

\* C16: a cycle that looks up the compensation source calls
\* calibrate('temperature', ...) exactly when the store holds a sample whose
\* age is at most max_age (age max_age is used, age max_age + 1 is not),
\* sends a command only for such a sample, and reads the sensor either way
C16_MaxAgeBoundary ==
    (SetUpCycle /\ LookedUp(last.trace)) =>
        /\ CalibrateAt(last.trace) # {} <=> Fresh(StoreOf(last.trace))
        /\ Sends(last.trace) # <<>> => Fresh(StoreOf(last.trace))
        /\ RawReadAt(last.trace) # {}

\* a sample whose age is exactly max_age was used
C16_Witness ==
    /\ SetUpCycle /\ LookedUp(last.trace)
    /\ StoreOf(last.trace) = Sample(max_age, PyNum(25))
    /\ CalibrateAt(last.trace) # {}
    /\ Sends(last.trace) # <<>>

\* the floats that the texts of a response stand for
ResponseFloats(resp) ==
    IF interface = "I2C"
    THEN {PyNum(float(resp[2][i])) :
             i \in {j \in 1..Len(resp[2]) : str_is_float(resp[2][j])}}
    ELSE IF resp[2] = None THEN {}
    ELSE {PyNum(float(resp[2][2][i])) : i \in FloatLines(resp[2][2])}

\* the value at index 0 of what a call returned, None when it returned no
\* dict or raised
Reported(ret) ==
    IF ret.kind = "return" /\ ret.val # None THEN ret.val[2] ELSE None

QueryAt(tr) == {i \in 1..Len(tr) : tr[i][1] = "query"}

\* C19: a cycle on a set-up device asks the device for "R" exactly once, and
\* no query follows it; every other query of the cycle lies inside the call
\* to calibrate (after it started, before the settle), none is made by the
\* cycle itself; without a compensation source the cycle makes no call other
\* than that "R"
C19_OneRawReadLast ==
    SetUpCycle =>
        /\ Cardinality(RawReadAt(last.trace)) = 1
        /\ \A i \in QueryAt(last.trace), k \in RawReadAt(last.trace) : i <= k
        /\ \A i \in QueryAt(last.trace) \ RawReadAt(last.trace) :
              /\ \E c \in CalibrateAt(last.trace) : c < i
              /\ \E j \in SettleAt(last.trace) : i < j
        /\ ~comp_id =>
              /\ Queries(last.trace) = <<PyStr("R")>>
              /\ Sends(last.trace) = <<>>
              /\ CalibrateAt(last.trace) = {}

\* a compensated cycle: calibrate sent its command, and "R" was the one
\* query the device received
C19_Witness ==
    /\ SetUpCycle /\ comp_id
    /\ Sends(last.trace) # <<>>
    /\ Queries(last.trace) = <<PyStr("R")>>
    /\ Answered(last.trace)

-----------------------------------------------------------------------------
(* Properties of the controller's identity *)

\* what the controller learnt from the board at construction
identity == <<measurement, board_version, firmware_version, init_error>>

\* C17: a constructed controller has asked for the board version exactly
\* once, and no call of calibrate() or send_command(), whatever it returns,
\* asks again or changes the measurement kind, the board version, the
\* firmware version or the init-fault diagnostic
C17_IdentityFrozen ==
    /\ [](cmd_phase = "ready" => probes = 1)
    /\ [][cmd_phase = "ready" =>
            (cmd_phase' = "ready" /\ identity' = identity /\ probes' = probes)]_vars

\* a version 2 controller after a calibrate() that sent a command and failed
C17_Witness ==
    /\ IsCalibrate
    /\ board_version = 2 /\ probes = 1
    /\ Sends(last.trace) # <<>>
    /\ LastErr = PyNum(1)

====
